---- MODULE Spec2Model ----
(***************************************************************************)
(* prometheus-osmetrics: one collection cycle of collectMetrics            *)
(* (src/src/metrics/collect.js): the namespace listings, the filter of     *)
(* terminal pods, the es6-promise-pool that drives processPod under the    *)
(* concurrency bound, and fetchPodMemoryAndCpuUsage, which validates one   *)
(* usage response and derives the metric records of one pod.               *)
(*                                                                         *)
(* Numbers that JavaScript holds as doubles are held as fractions          *)
(* [num, den] in lowest terms; den = 0 stands for Infinity (num = 1) and   *)
(* NaN (num = 0), the two outcomes of a division by zero.                  *)
(***************************************************************************)
EXTENDS Integers, Sequences, FiniteSets, TLC

\* ------------------------------------------------------------------ bounds
\* Pods one namespace listing returns at most.
MaxPodsPerNs == 2
\* Largest concurrency bound a cycle is started with.
MaxConcurrency == 2
\* Containers one usage response reports at most (SpecFetch).
MaxContainers == 2

\* ----------------------------------------------------------------- numbers
RECURSIVE GCD(_, _)
GCD(a, b) == IF b = 0 THEN a ELSE GCD(b, a % b)

\* A whole number as a JavaScript number.
Num(n) == [num |-> n, den |-> 1]

\* a / b of two non-negative numbers, as `parsedMemoryUsage / spec` computes it.
Div(a, b) ==
  IF b = 0
    THEN [num |-> IF a = 0 THEN 0 ELSE 1, den |-> 0]
    ELSE LET g == GCD(a, b) IN [num |-> a \div g, den |-> b \div g]

\* Mutant: the warning fires from 1 on.
GreaterOrEqualOne(v) == v.num >= v.den

\* `rate > 1`: true of Infinity, false of NaN.
GreaterThanOne(v) == v.num > v.den

\* Mutant: the timestamp is left in milliseconds.
dateToTimeStampMillis(date) == Num(date)

\* new Date(date).getTime() / 1000; the ISO-8601 string is held as the
\* milliseconds since the epoch that it denotes.
dateToTimeStamp(date) == Div(date, 1000)

\* ------------------------------------------------------- quantity parsers
\* A raw quantity string is held as its numeric portion and its suffix:
\* "128Mi" is [numeric |-> TRUE, digits |-> 128, suffix |-> "Mi"], "bogus" is
\* [numeric |-> FALSE, digits |-> 0, suffix |-> ""].
Quantity(digits, suffix) == [numeric |-> TRUE, digits |-> digits, suffix |-> suffix]
Bogus == [numeric |-> FALSE, digits |-> 0, suffix |-> ""]

RECURSIVE Power(_, _)
Power(b, e) == IF e = 0 THEN 1 ELSE b * Power(b, e - 1)

BinarySuffixes == <<"Ki", "Mi", "Gi", "Ti", "Pi", "Ei">>
DecimalSuffixes == <<"k", "M", "G", "T", "P", "E">>

IndexOf(seq, x) == CHOOSE i \in 1..Len(seq) : seq[i] = x
InSeq(seq, x) == \E i \in 1..Len(seq) : seq[i] = x

\* The outcome of a parser: a value, or the ParseError it throws.
Parsed(n) == [ok |-> TRUE, value |-> n]
ParseError(raw) == [ok |-> FALSE, value |-> 0]

parseMemory(raw) ==
  IF ~raw.numeric THEN ParseError(raw)
  ELSE IF raw.suffix = "" THEN Parsed(raw.digits)
  ELSE IF InSeq(BinarySuffixes, raw.suffix)
    THEN Parsed(raw.digits * Power(1024, IndexOf(BinarySuffixes, raw.suffix)))
  ELSE IF InSeq(DecimalSuffixes, raw.suffix)
    THEN Parsed(raw.digits * Power(1000, IndexOf(DecimalSuffixes, raw.suffix)))
  ELSE ParseError(raw)

parseCpu(raw) ==
  IF ~raw.numeric THEN ParseError(raw)
  ELSE IF raw.suffix = "m" THEN Parsed(raw.digits)
  ELSE IF raw.suffix = "" THEN Parsed(raw.digits * 1000)
  ELSE ParseError(raw)

\* ------------------------------------------------------ pods and responses
\* A pod descriptor as the Pod Lister returns it.
Pod(namespace, name, phase, containers) ==
  [metadata |-> [namespace |-> namespace, name |-> name],
   status |-> [phase |-> phase],
   spec |-> [containers |-> containers]]

\* A spec container; resources maps a subset of {"limits", "requests"} to a
\* map of a subset of {"memory", "cpu"} to raw quantity strings.
SpecContainer(name, resources) == [name |-> name, resources |-> resources]

\* One entry of body.containers.
ContainerMetrics(name, memory, cpu) ==
  [name |-> name, usage |-> [memory |-> memory, cpu |-> cpu]]

\* The request URL of line 64, which a response reports as response.url.
Url(pod) == [namespace |-> pod.metadata.namespace, pod |-> pod.metadata.name]
NoUrl == [namespace |-> "", pod |-> ""]

\* A decoded JSON body: what typeof, Array.isArray and == null say of it,
\* and, for a plain object, its kind, timestamp and containers.
Body(typeof, isArray, isNull, kind, timestamp, containers) ==
  [typeof |-> typeof, isArray |-> isArray, isNull |-> isNull,
   kind |-> kind, timestamp |-> timestamp, containers |-> containers]
PodMetrics(timestamp, containers) ==
  Body("object", FALSE, FALSE, "PodMetrics", timestamp, containers)
NullBody == Body("object", FALSE, TRUE, "", 0, <<>>)
ArrayBody == Body("object", TRUE, FALSE, "", 0, <<>>)
StringBody == Body("string", FALSE, FALSE, "", 0, <<>>)
ObjectOfKind(kind) == Body("object", FALSE, FALSE, kind, 0, <<>>)

\* What `await fetch(...)` yields: a response, or the failure with which the
\* promise of fetch rejects (the 10 s timeout, a connection error).
Response(status, body) == [status |-> status, body |-> body, failure |-> ""]
FetchFailure(type) == [status |-> 0, body |-> NullBody, failure |-> type]

\* ---------------------------------------------------------------- errors
NoError == [message |-> "", status |-> 0, url |-> NoUrl, detail |-> ""]
Error(message, status, url, detail) ==
  [message |-> message, status |-> status, url |-> url, detail |-> detail]

\* -------------------------------------------- fetchPodMemoryAndCpuUsage
\* The outcome of a piece of the fetch: ok with the records pushed and the
\* warnings logged, or the error thrown, with the warnings logged before it.
Pushed(metrics, warnings) ==
  [ok |-> TRUE, error |-> NoError, metrics |-> metrics, warnings |-> warnings]
Thrown(error, warnings) ==
  [ok |-> FALSE, error |-> error, metrics |-> <<>>, warnings |-> warnings]

\* Statement r1 followed by statement r2: r2 runs only if r1 did not throw.
Then(r1, r2) ==
  IF ~r1.ok THEN r1
  ELSE IF ~r2.ok THEN Thrown(r2.error, r1.warnings \o r2.warnings)
  ELSE Pushed(r1.metrics \o r2.metrics, r1.warnings \o r2.warnings)

Labels(pod, container) ==
  [pod |-> pod.metadata.name,
   container |-> container.name,
   namespace |-> pod.metadata.namespace]

Metric(name, labels, help, value, timestamp) ==
  [name |-> name, labels |-> labels, type |-> "gauge", help |-> help,
   value |-> value, timestamp |-> timestamp]

\* Mutant: the first spec container is taken, whatever its name.
FindSpecContainerAny(pod, container) ==
  IF pod.spec.containers = <<>> THEN {} ELSE {1}

\* pod.spec.containers.find(cont => cont.name === container.name): the
\* indices of the first match (empty when there is none).
FindSpecContainer(pod, container) ==
  LET cs == pod.spec.containers
      hits == {i \in 1..Len(cs) : cs[i].name = container.name}
  IN {i \in hits : \A j \in hits : i <= j}

\* specContainer && specContainer.resources && specContainer.resources[section]
\*   && specContainer.resources[section][resource]
Declares(pod, container, section, resource) ==
  \E i \in FindSpecContainer(pod, container) :
    LET res == pod.spec.containers[i].resources IN
      /\ section \in DOMAIN res
      /\ resource \in DOMAIN res[section]

Declared(pod, container, section, resource) ==
  LET i == CHOOSE i \in FindSpecContainer(pod, container) : TRUE
  IN pod.spec.containers[i].resources[section][resource]

Warning(name, pod, container, raw, spec, usage, rate) ==
  [name |-> name, pod |-> pod.metadata.name, container |-> container.name,
   raw |-> raw, spec |-> spec, usage |-> usage, rate |-> rate]

\* parseMemory for a memory quantity, parseCpu for a CPU quantity.
Parse(resource, raw) ==
  IF resource = "memory" THEN parseMemory(raw) ELSE parseCpu(raw)

\* Mutant: a declared quantity that does not parse counts as zero.
RateBlockDefaultsToZero(pod, container, section, resource, usage, name, help, timestamp) ==
  IF ~Declares(pod, container, section, resource) THEN Pushed(<<>>, <<>>)
  ELSE
    LET raw == Declared(pod, container, section, resource)
        spec == Parse(resource, raw)
        rate == Div(usage, spec.value)
    IN Pushed(
         <<Metric(name, Labels(pod, container), help, rate, timestamp)>>,
         IF GreaterThanOne(rate)
           THEN <<Warning(name, pod, container, raw, spec.value, usage, rate)>>
           ELSE <<>>)

\* One of the four conditional blocks (lines 146-177, 179-210, 213-244,
\* 246-277): parse the declared quantity, divide, warn above 1, push.
RateBlock(pod, container, section, resource, usage, name, help, timestamp) ==
  IF ~Declares(pod, container, section, resource) THEN Pushed(<<>>, <<>>)
  ELSE
    LET raw == Declared(pod, container, section, resource)
        spec == Parse(resource, raw)
        rate == Div(usage, spec.value)
    IN IF ~spec.ok THEN Thrown(Error("ParseError", 0, NoUrl, section), <<>>)
       ELSE Pushed(
              <<Metric(name, Labels(pod, container), help, rate, timestamp)>>,
              IF GreaterThanOne(rate)
                THEN <<Warning(name, pod, container, raw, spec.value, usage, rate)>>
                ELSE <<>>)

\* The body of containers.forEach (lines 116-279) for one container.
ForEachContainer(pod, container, timestamp) ==
  LET mem == parseMemory(container.usage.memory)
      cpu == parseCpu(container.usage.cpu)
  IN
  IF ~mem.ok THEN Thrown(Error("ParseError", 0, NoUrl, "usage.memory"), <<>>)
  ELSE IF ~cpu.ok THEN Thrown(Error("ParseError", 0, NoUrl, "usage.cpu"), <<>>)
  ELSE
    Then(Pushed(
           <<Metric("osmetrics_pod_memory_usage_bytes", Labels(pod, container),
                    "Pod Memory Usage", Num(mem.value), timestamp),
             Metric("osmetrics_pod_cpu_usage_millicores", Labels(pod, container),
                    "Pod CPU Usage Rate", Num(cpu.value), timestamp)>>,
           <<>>),
    Then(RateBlock(pod, container, "limits", "memory", mem.value,
                   "osmetrics_pod_memory_usage_limits_rate", "Pod Memory Usage",
                   timestamp),
    Then(RateBlock(pod, container, "requests", "memory", mem.value,
                   "osmetrics_pod_memory_usage_requests_rate", "Pod Memory Usage",
                   timestamp),
    Then(RateBlock(pod, container, "limits", "cpu", cpu.value,
                   "osmetrics_pod_cpu_usage_limits_rate", "Pod CPU Usage rate",
                   timestamp),
         RateBlock(pod, container, "requests", "cpu", cpu.value,
                   "osmetrics_pod_cpu_usage_requests_rate", "Pod CPU Usage rate",
                   timestamp)))))

\* containers.forEach over body.containers from index i on.
RECURSIVE ForEach(_, _, _, _)
ForEach(pod, containers, timestamp, i) ==
  IF i > Len(containers) THEN Pushed(<<>>, <<>>)
  ELSE Then(ForEachContainer(pod, containers[i], timestamp),
            ForEach(pod, containers, timestamp, i + 1))

\* Mutant: 204 No Content is accepted.
StatusRejectedBut204(status) == status < 200 \/ status > 299

\* response.status < 200 || response.status > 299 || response.status === 204
StatusRejected(status) == status < 200 \/ status > 299 \/ status = 204

\* Mutant: the null check is missing, and reading body.kind of null throws
\* a TypeError.
BodyCheckNoNull(body) ==
  IF body.typeof # "object" THEN Error("Expected an object", 0, NoUrl, body.typeof)
  ELSE IF body.isArray THEN Error("Expected an object", 0, NoUrl, "array")
  ELSE IF body.isNull THEN Error("TypeError", 0, NoUrl, "kind")
  ELSE IF body.kind # "PodMetrics" THEN Error("Expected a PodMetrics", 0, NoUrl, body.kind)
  ELSE NoError

\* The checks of the decoded body, in the order of lines 90-106.
BodyCheck(body) ==
  IF body.typeof # "object" THEN Error("Expected an object", 0, NoUrl, body.typeof)
  ELSE IF body.isArray THEN Error("Expected an object", 0, NoUrl, "array")
  ELSE IF body.isNull THEN Error("Expected an object", 0, NoUrl, "null")
  ELSE IF body.kind # "PodMetrics" THEN Error("Expected a PodMetrics", 0, NoUrl, body.kind)
  ELSE NoError

\* fetchPodMemoryAndCpuUsage from the moment the response has arrived.
fetchPodMemoryAndCpuUsage(pod, response) ==
  IF response.failure # ""
    THEN Thrown(Error("FetchError", 0, Url(pod), response.failure), <<>>)
  ELSE IF StatusRejected(response.status)
    THEN Thrown(Error("OS API returned status code", response.status, Url(pod), ""), <<>>)
  ELSE IF BodyCheck(response.body) # NoError
    THEN Thrown(BodyCheck(response.body), <<>>)
  ELSE ForEach(pod, response.body.containers,
               dateToTimeStamp(response.body.timestamp), 1)

\* ------------------------------------------------------------ the inputs
Namespaces == {"a", "b"}
\* options.namespace of a cycle: a set of namespace names, in some order.
NamespaceOptions == {<<>>, <<"a">>, <<"b">>, <<"b", "a">>}
Phases == {"Running", "Pending", "Succeeded", "Failed"}
PodNames == <<"p1", "p2", "p3", "p4">>

Mi(n) == Quantity(n, "Mi")

\* The declared spec of the j-th pod of a namespace.
SpecOf(ns, j) ==
  CASE ns = "a" /\ j = 1 ->
         <<SpecContainer("c1", [limits |-> [memory |-> Mi(256), cpu |-> Quantity(1, "")],
                                requests |-> [memory |-> Mi(64), cpu |-> Quantity(500, "m")]])>>
    [] ns = "a" /\ j = 2 ->
         <<SpecContainer("c1", [limits |-> [memory |-> Bogus]]),
           SpecContainer("c2", <<>>)>>
    [] ns = "b" /\ j = 1 ->
         <<SpecContainer("c1", [requests |-> [cpu |-> Bogus]])>>
    [] OTHER ->
         <<SpecContainer("c2", [limits |-> [memory |-> Quantity(512, "")]])>>

\* What listPods may resolve to for a namespace: namespace "a" holds up to
\* MaxPodsPerNs pods, namespace "b" at most one, each in any phase.
Listings(ns) ==
  UNION {
    {[j \in 1..k |-> Pod(ns, PodNames[j], f[j], SpecOf(ns, j))] : f \in [1..k -> Phases]}
    : k \in 0..(IF ns = "a" THEN MaxPodsPerNs ELSE 1)}

ListError(ns) == Error("listPods failed", 0, [namespace |-> ns, pod |-> ""], "")

\* The usage responses a fetch of a cycle may receive.
CycleResponses ==
  {Response(200, PodMetrics(1000, <<ContainerMetrics("c1", Mi(128), Quantity(250, "m"))>>)),
   Response(200, PodMetrics(1500, <<ContainerMetrics("c3", Quantity(1, "Ki"), Quantity(2, "")),
                                    ContainerMetrics("c2", Quantity(1, "Ki"), Quantity(1, ""))>>)),
   FetchFailure("request-timeout"),
   Response(200, PodMetrics(1000, <<ContainerMetrics("c2", Quantity(2, "Ki"), Quantity(1, "")),
                                    ContainerMetrics("c1", Bogus, Quantity(1, ""))>>))}

\* The inputs of one application of fetchPodMemoryAndCpuUsage (SpecFetch).
\* A map from a subset of the two keys to values: every choice of absent or
\* one of ms for "memory", and of absent or one of cs for "cpu".
Maps(k1, v1s, k2, v2s) ==
  {<<>>}
    \cup {[x \in {k1} |-> v] : v \in v1s}
    \cup {[x \in {k2} |-> v] : v \in v2s}
    \cup {[x \in {k1, k2} |-> IF x = k1 THEN v ELSE w] : v \in v1s, w \in v2s}

DeclaredLimits ==
  Maps("memory", {Mi(256), Bogus}, "cpu", {Quantity(1, ""), Bogus})
DeclaredRequests ==
  Maps("memory", {Mi(128), Quantity(64, "Xi")}, "cpu", {Quantity(250, "m"), Quantity(0, "")})

FetchResources ==
  {<<>>}
    \cup {[x \in {"limits"} |-> l] : l \in DeclaredLimits}
    \cup {[x \in {"requests"} |-> r] : r \in DeclaredRequests}
    \cup {[x \in {"limits", "requests"} |-> IF x = "limits" THEN l ELSE r] :
            l \in DeclaredLimits, r \in DeclaredRequests}

FetchPods ==
  {Pod("a", "p1", "Running", cs) :
     cs \in {<<>>}
            \cup {<<SpecContainer("c1", r)>> : r \in FetchResources}
            \cup {<<SpecContainer("c2", r)>> : r \in FetchResources}
            \cup {<<SpecContainer("c3", [limits |-> [memory |-> Bogus]]),
                    SpecContainer("c2", [limits |-> [cpu |-> c],
                                         requests |-> [memory |-> Mi(128)]]),
                    SpecContainer("c1", [limits |-> [memory |-> m]])>> :
                    m \in {Mi(256), Mi(1024)}, c \in {Quantity(1, ""), Bogus}}}

ContainerNames == <<"c1", "c2", "c3", "c4">>
UsageMemory == {Mi(128), Mi(512), Bogus}
UsageCpu == {Quantity(500, "m"), Quantity(2, ""), Bogus}

\* body.containers: up to MaxContainers containers, the i-th named
\* ContainerNames[i], with any of the usage strings.
ReportedContainers ==
  UNION {
    {[i \in 1..k |-> ContainerMetrics(ContainerNames[i], f[i][1], f[i][2])] :
       f \in [1..k -> UsageMemory \X UsageCpu]}
    : k \in 0..MaxContainers}

Statuses == {199, 200, 204, 299, 300, 404, 500}

FetchResponses ==
  {Response(st, b) :
     st \in Statuses,
     b \in {NullBody, ArrayBody, StringBody, ObjectOfKind("Status"),
            PodMetrics(1000, <<ContainerMetrics("c1", Mi(128), Quantity(500, "m"))>>)}}
    \cup {Response(200, PodMetrics(1500, cs)) : cs \in ReportedContainers}

\* --------------------------------------------------------------- the state
VARIABLES
  pc,            \* "idle", "listing", "pool", "returned", "rejected"
  namespace,     \* options.namespace
  concurrency,   \* options.concurrency
  listings,      \* per index of options.namespace: the listPods call
  listed,        \* the concatenated listings, before the filter
  allPods,       \* indices into listed of the pods still to dispatch
  metrics,       \* the closure variable `metrics`
  pool,          \* the PromisePool: _size, _done, _concurrency, active (its promise is pending)
  fetches,       \* per index into listed: fetches issued, state, response received
  settled,       \* the indices into listed, in the order their fetches settled
  dispatched,    \* the indices into listed, in the order processPod was called
  result,        \* what collectMetrics has yielded to its caller
  call,          \* one application of fetchPodMemoryAndCpuUsage (SpecFetch)
  defaultNamespace, \* the option defaultNamespace of createServer (SpecServer)
  requests       \* the GET /metrics requests received: query, cycle, reply (SpecServer)

vars == <<pc, namespace, concurrency, listings, listed, allPods, metrics,
          pool, fetches, settled, dispatched, result, call, defaultNamespace, requests>>

cycleVars == <<pc, namespace, concurrency, listings, listed, allPods, metrics,
               pool, fetches, settled, dispatched, result>>

serverVars == <<defaultNamespace, requests>>

Pending == [status |-> "pending", metrics |-> <<>>, error |-> NoError]
Returned(ms) == [status |-> "returned", metrics |-> ms, error |-> NoError]
Rejected(e) == [status |-> "rejected", metrics |-> <<>>, error |-> e]

NoResponse == Response(0, NullBody)
NoCall == [state |-> "none", pod |-> Pod("", "", "", <<>>),
           response |-> NoResponse, outcome |-> Pushed(<<>>, <<>>)]
NoPool == [size |-> 0, done |-> FALSE, active |-> FALSE, concurrency |-> 0]

\* A value: undefined, or defined with a value.
Undefined == [defined |-> FALSE, value |-> <<>>]
Defined(v) == [defined |-> TRUE, value |-> v]

\* One call of collectMetrics: its options, its locals and what it yielded.
NoCycle ==
  [pc |-> "idle", namespace |-> <<>>, concurrency |-> 1, listings |-> <<>>,
   listed |-> <<>>, allPods |-> <<>>, metrics |-> <<>>, pool |-> NoPool,
   fetches |-> <<>>, settled |-> <<>>, dispatched |-> <<>>, result |-> Pending]

\* The call of collectMetrics that the variables of Spec describe.
Cycle ==
  [pc |-> pc, namespace |-> namespace, concurrency |-> concurrency,
   listings |-> listings, listed |-> listed, allPods |-> allPods,
   metrics |-> metrics, pool |-> pool, fetches |-> fetches,
   settled |-> settled, dispatched |-> dispatched, result |-> result]

\* The variables of Spec take the values of the call cy.
Becomes(cy) ==
  \E next \in {cy} :
    /\ pc' = next.pc
    /\ namespace' = next.namespace
    /\ concurrency' = next.concurrency
    /\ listings' = next.listings
    /\ listed' = next.listed
    /\ allPods' = next.allPods
    /\ metrics' = next.metrics
    /\ pool' = next.pool
    /\ fetches' = next.fetches
    /\ settled' = next.settled
    /\ dispatched' = next.dispatched
    /\ result' = next.result

InitCycle ==
  /\ pc = "idle"
  /\ namespace = <<>>
  /\ concurrency = 1
  /\ listings = <<>>
  /\ listed = <<>>
  /\ allPods = <<>>
  /\ metrics = <<>>
  /\ pool = NoPool
  /\ fetches = <<>>
  /\ settled = <<>>
  /\ dispatched = <<>>
  /\ result = Pending

Init ==
  /\ InitCycle
  /\ call = NoCall
  /\ defaultNamespace = Undefined
  /\ requests = <<>>

\* ------------------------------------------------------------ the collector
\* Mutant: the filter drops only the pods that failed.
NonTerminalOnlyFailed(pod) == pod.status.phase # "Failed"

\* pod.status.phase !== 'Failed' && pod.status.phase !== 'Succeeded'
NonTerminal(pod) == pod.status.phase # "Failed" /\ pod.status.phase # "Succeeded"

RECURSIVE Concat(_)
\* podsPerNamespace.reduce((accum, pods) => accum.concat(pods), [])
Concat(seqs) == IF seqs = <<>> THEN <<>> ELSE Head(seqs) \o Concat(Tail(seqs))

\* Mutant: the listing is not filtered, every pod is kept.
FilterKeepsAll(ps, i) == [k \in 1..(Len(ps) - i + 1) |-> i + k - 1]

RECURSIVE Filter(_, _)
\* The indices, from i on, of the pods of ps that the filter keeps, in order.
Filter(ps, i) ==
  IF i > Len(ps) THEN <<>>
  ELSE IF NonTerminal(ps[i]) THEN <<i>> \o Filter(ps, i + 1)
  ELSE Filter(ps, i + 1)

\* Mutant: processPod catches the error of the fetch and resolves.
processPodSwallows(pod, response, ms) ==
  LET r == fetchPodMemoryAndCpuUsage(pod, response) IN
  [ok |-> TRUE, error |-> NoError, metrics |-> IF r.ok THEN ms \o r.metrics ELSE ms]

\* Mutant: processPod assigns the pod's records instead of concatenating.
processPodOverwrites(pod, response, ms) ==
  LET r == fetchPodMemoryAndCpuUsage(pod, response) IN
  IF r.ok THEN [ok |-> TRUE, error |-> NoError, metrics |-> r.metrics]
  ELSE [ok |-> FALSE, error |-> r.error, metrics |-> ms]

\* Mutant: processPod catches the error of the fetch and throws one of its own.
processPodWraps(pod, response, ms) ==
  LET r == fetchPodMemoryAndCpuUsage(pod, response) IN
  IF r.ok THEN [ok |-> TRUE, error |-> NoError, metrics |-> ms \o r.metrics]
  ELSE [ok |-> FALSE, error |-> Error("processPod failed", 0, Url(pod), r.error.message),
        metrics |-> ms]

\* processPod once the response has arrived: the value of `metrics` it
\* leaves, and whether its promise is fulfilled or rejected.
processPod(pod, response, ms) ==
  LET r == fetchPodMemoryAndCpuUsage(pod, response) IN
  IF r.ok THEN [ok |-> TRUE, error |-> NoError, metrics |-> ms \o r.metrics]
  ELSE [ok |-> FALSE, error |-> r.error, metrics |-> ms]

\* Mutant: the producer takes the first pod of the array, not the last.
promiseProducerShift(pods) ==
  IF pods = <<>> THEN [pod |-> 0, allPods |-> pods]
  ELSE [pod |-> Head(pods), allPods |-> Tail(pods)]

\* promiseProducer: allPods.pop(); the pod popped (0 for undefined) and the
\* array left.
promiseProducer(pods) ==
  IF pods = <<>> THEN [pod |-> 0, allPods |-> pods]
  ELSE [pod |-> pods[Len(pods)], allPods |-> SubSeq(pods, 1, Len(pods) - 1)]

\* ----------------------------------------------------------------- the pool
\* new PromisePool(promiseProducer, options.concurrency) and pool.start(),
\* with the behaviour of es6-promise-pool. A step of the pool yields its new
\* state, the array left, the pods started, and how its promise settles.
PoolStep(p, pods, started, settle) ==
  [pool |-> p, allPods |-> pods, started |-> started, settle |-> settle]

\* The guard of the loop of _proceed: _size < _concurrency.
HasRoom(p) == p.size < p.concurrency

\* The loop of _proceed: while there is room, ask the producer; a promise is
\* tracked, null ends the iteration.
RECURSIVE ProceedLoop(_)
ProceedLoop(s) ==
  IF ~HasRoom(s.pool) THEN s
  ELSE LET next == promiseProducer(s.allPods) IN
    IF next.pod = 0 THEN [s EXCEPT !.pool.done = TRUE]
    ELSE ProceedLoop([s EXCEPT !.pool.size = @ + 1,
                               !.allPods = next.allPods,
                               !.started = Append(@, next.pod)])

\* _proceed: dispatch, then resolve the pool's promise when the producer is
\* done and nothing is in flight.
Proceed(p, pods) ==
  LET s == IF p.done THEN PoolStep(p, pods, <<>>, "none")
           ELSE ProceedLoop(PoolStep(p, pods, <<>>, "none"))
      settles == s.pool.done /\ s.pool.size = 0
  IN PoolStep([s.pool EXCEPT !.active = ~settles], s.allPods, s.started,
              IF settles THEN "resolved" ELSE "none")

\* Mutant: the pool is bounded by the number of pods, not by the option.
PromisePoolOfAllPods(pods, c) ==
  [size |-> 0, done |-> FALSE, active |-> TRUE, concurrency |-> Len(pods) + 1]

\* Mutant: the pool runs one fetch at a time, whatever the option.
PromisePoolSerial(pods, c) ==
  [size |-> 0, done |-> FALSE, active |-> TRUE, concurrency |-> 1]

\* new PromisePool(promiseProducer, options.concurrency), about to start.
PromisePool(pods, c) ==
  [size |-> 0, done |-> FALSE, active |-> TRUE, concurrency |-> c]

\* pool.start()
Start(pods, c) == Proceed(PromisePool(pods, c), pods)

\* Mutant: a fulfilled promise frees its slot and the pool does not proceed.
OnPooledPromiseFulfilledIdle(p, pods) ==
  PoolStep([p EXCEPT !.size = @ - 1], pods, <<>>, "none")

\* _onPooledPromiseFulfilled: _size--, and _proceed if the pool is active.
OnPooledPromiseFulfilled(p, pods) ==
  LET q == [p EXCEPT !.size = @ - 1] IN
  IF q.active THEN Proceed(q, pods) ELSE PoolStep(q, pods, <<>>, "none")

\* _onPooledPromiseRejected: _size--, and reject the pool's promise if the
\* pool is active.
OnPooledPromiseRejected(p, pods) ==
  LET q == [p EXCEPT !.size = @ - 1] IN
  IF q.active THEN PoolStep([q EXCEPT !.active = FALSE], pods, <<>>, "rejected")
  ELSE PoolStep(q, pods, <<>>, "none")

SeqSet(seq) == {seq[i] : i \in 1..Len(seq)}

\* processPod called for every pod of `started`: its fetch is issued.
Dispatch(fs, started) ==
  [i \in DOMAIN fs |->
     IF i \in SeqSet(started)
       THEN [fs[i] EXCEPT !.issued = @ + 1, !.state = "inflight"]
       ELSE fs[i]]

\* Mutant: collectMetrics catches the pool's error and returns the records
\* collected so far.
AwaitCatches(cy, step, fs, ms, error) ==
  [cy EXCEPT !.pool = step.pool,
             !.allPods = step.allPods,
             !.fetches = Dispatch(fs, step.started),
             !.dispatched = @ \o step.started,
             !.pc = IF step.settle # "none" THEN "returned"
                    ELSE IF step.pool.active THEN "pool" ELSE @,
             !.result = IF step.settle # "none" THEN Returned(ms) ELSE @]

\* A step of the pool takes effect: the fetches of the pods started are
\* issued, and `await pool.start()` (line 344) resumes when the pool's promise
\* settles: collectMetrics returns `metrics` or throws the pool's error.
Await(cy, step, fs, ms, error) ==
  [cy EXCEPT !.pool = step.pool,
             !.allPods = step.allPods,
             !.fetches = Dispatch(fs, step.started),
             !.dispatched = @ \o step.started,
             !.pc = CASE step.settle = "resolved" -> "returned"
                      [] step.settle = "rejected" -> "rejected"
                      [] OTHER -> IF step.pool.active THEN "pool" ELSE @,
             !.result = CASE step.settle = "resolved" -> Returned(ms)
                          [] step.settle = "rejected" -> Rejected(error)
                          [] OTHER -> @]

\* Lines 301-344 once Promise.all has resolved with podsPerNamespace.
StartPool(cy, podsPerNamespace) ==
  LET all == Concat(podsPerNamespace) IN
  Await([cy EXCEPT !.listed = all, !.metrics = <<>>],
        Start(Filter(all, 1), cy.concurrency),
        [i \in 1..Len(all) |-> [issued |-> 0, state |-> "none", response |-> NoResponse]],
        <<>>, NoError)

\* collectMetrics is called: every listing is issued; with no namespace
\* Promise.all resolves at once.
CollectMetricsCalled(ns, c) ==
  LET cy == [NoCycle EXCEPT !.namespace = ns,
                            !.concurrency = c,
                            !.listings = [i \in 1..Len(ns) |-> [state |-> "pending", pods |-> <<>>]]]
  IN IF ns = <<>> THEN StartPool(cy, <<>>) ELSE [cy EXCEPT !.pc = "listing"]

AllListed(ls) == \A i \in DOMAIN ls : ls[i].state = "ok"

\* A listPods call resolves; the last one resolves Promise.all.
ListResolved(cy, i, pods) ==
  LET ls == [cy.listings EXCEPT ![i] = [state |-> "ok", pods |-> pods]]
      listing == [cy EXCEPT !.listings = ls]
  IN IF cy.pc = "listing" /\ AllListed(ls)
       THEN StartPool(listing, [j \in DOMAIN ls |-> ls[j].pods])
       ELSE listing

\* A listPods call rejects; the first rejection rejects Promise.all, and
\* collectMetrics throws its error.
ListRejected(cy, i) ==
  LET listing == [cy EXCEPT !.listings[i] = [state |-> "error", pods |-> <<>>]] IN
  IF cy.pc = "listing"
    THEN [listing EXCEPT !.pc = "rejected",
                         !.result = Rejected(ListError(cy.namespace[i]))]
    ELSE listing

\* The response of the fetch of pod i arrives: fetchPodMemoryAndCpuUsage
\* runs to its end, processPod concatenates or throws, and the pool's
\* handler for the promise of processPod runs. The three are continuations
\* of one another on the microtask queue and run before the event loop
\* delivers the next response, so they are one step.
FetchSettled(cy, i, response) ==
  LET fetched == fetchPodMemoryAndCpuUsage(cy.listed[i], response)
      r == processPod(cy.listed[i], response, cy.metrics)
      fs == [cy.fetches EXCEPT ![i].state = IF fetched.ok THEN "fulfilled" ELSE "rejected",
                               ![i].response = response]
  IN Await([cy EXCEPT !.metrics = r.metrics, !.settled = Append(@, i)],
           IF r.ok THEN OnPooledPromiseFulfilled(cy.pool, cy.allPods)
                   ELSE OnPooledPromiseRejected(cy.pool, cy.allPods),
           fs, r.metrics, r.error)

\* ------------------------------------------------------------- the actions
CollectMetrics ==
  /\ pc = "idle"
  /\ \E ns \in NamespaceOptions, c \in 1..MaxConcurrency :
       Becomes(CollectMetricsCalled(ns, c))
  /\ UNCHANGED <<call, serverVars>>

ListResolve(i) ==
  /\ listings[i].state = "pending"
  /\ \E pods \in Listings(namespace[i]) : Becomes(ListResolved(Cycle, i, pods))
  /\ UNCHANGED <<call, serverVars>>

ListReject(i) ==
  /\ listings[i].state = "pending"
  /\ Becomes(ListRejected(Cycle, i))
  /\ UNCHANGED <<call, serverVars>>

FetchSettle(i) ==
  /\ i \in DOMAIN fetches
  /\ fetches[i].state = "inflight"
  /\ \E response \in CycleResponses : Becomes(FetchSettled(Cycle, i, response))
  /\ UNCHANGED <<call, serverVars>>

Next ==
  \/ CollectMetrics
  \/ \E i \in DOMAIN listings : ListResolve(i)
  \/ \E i \in DOMAIN listings : ListReject(i)
  \/ \E i \in DOMAIN fetches : FetchSettle(i)

Spec == Init /\ [][Next]_vars

\* Every call settles: a fetch still in flight is ended by its timeout of
\* 10 s (line 66), which rejects the promise of fetch, and a listing still
\* pending ends at the latest by failing.
ListFails == \E i \in DOMAIN listings : ListReject(i)
FetchTimesOut ==
  /\ \E i \in DOMAIN fetches :
       /\ fetches[i].state = "inflight"
       /\ Becomes(FetchSettled(Cycle, i, FetchFailure("request-timeout")))
  /\ UNCHANGED <<call, serverVars>>
SpecLive == Spec /\ WF_vars(ListFails) /\ WF_vars(FetchTimesOut)

\* ------------------------------------------ one fetch, over all the inputs
InitFetch ==
  /\ InitCycle
  /\ defaultNamespace = Undefined
  /\ requests = <<>>
  /\ \E pod \in FetchPods, response \in FetchResponses :
       call = [state |-> "pending", pod |-> pod, response |-> response,
               outcome |-> Pushed(<<>>, <<>>)]

\* The response arrives and fetchPodMemoryAndCpuUsage runs to its end.
Fetch ==
  /\ call.state = "pending"
  /\ call' = [call EXCEPT !.state = "settled",
                          !.outcome = fetchPodMemoryAndCpuUsage(call.pod, call.response)]
  /\ UNCHANGED <<cycleVars, serverVars>>

NextFetch == Fetch

SpecFetch == InitFetch /\ [][NextFetch]_vars

\* --------------------------------------------------------------- the server
\* concurrency = 10, the default of createServer.
DefaultConcurrency == 10
MaxRequests == 2

\* req.query.namespace after validation: absent, a string of at least one
\* character, or an array of such strings.
QueryAbsent == [kind |-> "absent", string |-> "", array |-> <<>>]
QueryString(s) == [kind |-> "string", string |-> s, array |-> <<>>]
QueryArray(a) == [kind |-> "array", string |-> "", array |-> a]

\* if (req.query.namespace): absent is undefined, a validated string is not
\* empty and an array is an object.
Truthy(query) == query.kind # "absent"

\* Mutant: the handler ignores the query.
NamespaceOfDefault(default, query) == default

\* Lines 64-70: the namespaces the handler passes to collectMetrics.
NamespaceOf(default, query) ==
  IF Truthy(query)
    THEN IF query.kind = "array" THEN Defined(query.array)
         ELSE Defined(<<query.string>>)
    ELSE default

\* options.namespace.map(...) on undefined: collectMetrics throws a TypeError
\* before any listing is issued.
CollectMetricsThrows ==
  [NoCycle EXCEPT !.pc = "rejected",
                  !.result = Rejected(Error("TypeError", 0, NoUrl, "namespace"))]

\* serializeMetrics: for each distinct metric name, in the order first seen, a
\* HELP line, a TYPE line and the sample lines of the records of that name.
RECURSIVE FirstSeen(_, _)
FirstSeen(ms, seen) ==
  IF ms = <<>> THEN <<>>
  ELSE IF Head(ms).name \in seen THEN FirstSeen(Tail(ms), seen)
  ELSE <<Head(ms).name>> \o FirstSeen(Tail(ms), seen \cup {Head(ms).name})

Sample(m) ==
  [line |-> "sample", name |-> m.name, labels |-> m.labels, text |-> "",
   value |-> m.value, timestamp |-> m.timestamp]
Comment(line, name, text) ==
  [line |-> line, name |-> name, labels |-> <<>>, text |-> text,
   value |-> Num(0), timestamp |-> Num(0)]

RECURSIVE Samples(_, _)
Samples(ms, name) ==
  IF ms = <<>> THEN <<>>
  ELSE IF Head(ms).name = name THEN <<Sample(Head(ms))>> \o Samples(Tail(ms), name)
  ELSE Samples(Tail(ms), name)

RECURSIVE Blocks(_, _)
Blocks(ms, names) ==
  IF names = <<>> THEN <<>>
  ELSE LET name == Head(names)
           first == CHOOSE i \in 1..Len(ms) :
                      ms[i].name = name /\ \A j \in 1..(i - 1) : ms[j].name # name
       IN <<Comment("HELP", name, ms[first].help), Comment("TYPE", name, ms[first].type)>>
            \o Samples(ms, name) \o Blocks(ms, Tail(names))

serializeMetrics(ms) == Blocks(ms, FirstSeen(ms, {}))

\* What the request has been answered with: nothing yet, the document, or the
\* error response of the server (fastify with fastify-sensible answers an
\* Error that bears no status code with status 500).
NoReply == [statusCode |-> 0, document |-> <<>>]
Sent(document) == [statusCode |-> 200, document |-> document]
ErrorReply == [statusCode |-> 500, document |-> <<>>]

\* Lines 72-83: reply.send(serializeMetrics(await collectMetrics(...))); an
\* error thrown by the handler is answered by the server with status 500.
Reply(cy) ==
  CASE cy.result.status = "returned" -> Sent(serializeMetrics(cy.result.metrics))
    [] cy.result.status = "rejected" -> ErrorReply
    [] OTHER -> NoReply

\* Mutant: `metrics` is declared outside collectMetrics, so that a call sees
\* what the latest call has collected.
LocalsShared(reqs, r) ==
  [reqs[r].cycle EXCEPT !.metrics = reqs[Len(reqs)].cycle.metrics]

\* The locals of the call of collectMetrics of request r: podsPerNamespace,
\* allPods, metrics and the pool are declared inside the function.
Locals(reqs, r) == reqs[r].cycle

\* The handler of GET /metrics, up to its await.
Handler(default, query) ==
  LET ns == NamespaceOf(default, query)
      cy == IF ns.defined THEN CollectMetricsCalled(ns.value, DefaultConcurrency)
            ELSE CollectMetricsThrows
  IN [query |-> query, cycle |-> cy, reply |-> Reply(cy)]

\* The handler of request r resumes when its cycle has ended.
Resume(reqs, r, cy) == [reqs EXCEPT ![r].cycle = cy, ![r].reply = Reply(cy)]

\* The inputs of the server: each listing holds one pod.
ServerDefaults == {Undefined, Defined(<<"a">>)}
Queries == {QueryAbsent, QueryString("b"), QueryArray(<<"b", "a">>)}
ServerListings(ns) ==
  {<<Pod(ns, PodNames[1], phase, SpecOf(ns, 1))>> : phase \in {"Running", "Succeeded"}}
ServerResponses ==
  {Response(200, PodMetrics(1500, <<ContainerMetrics("c3", Quantity(1, "Ki"), Quantity(2, "")),
                                    ContainerMetrics("c2", Quantity(1, "Ki"), Quantity(1, ""))>>)),
   Response(500, StringBody)}

InitServer ==
  /\ InitCycle
  /\ call = NoCall
  /\ defaultNamespace \in ServerDefaults
  /\ requests = <<>>

\* A GET /metrics request arrives and its handler runs up to its await.
Request ==
  /\ Len(requests) < MaxRequests
  /\ \E query \in Queries :
       requests' = Append(requests, Handler(defaultNamespace, query))
  /\ UNCHANGED <<cycleVars, call, defaultNamespace>>

ServerListResolve(r, i) ==
  /\ requests[r].cycle.listings[i].state = "pending"
  /\ \E pods \in ServerListings(requests[r].cycle.namespace[i]) :
       requests' = Resume(requests, r, ListResolved(Locals(requests, r), i, pods))
  /\ UNCHANGED <<cycleVars, call, defaultNamespace>>

ServerListReject(r, i) ==
  /\ requests[r].cycle.listings[i].state = "pending"
  /\ requests' = Resume(requests, r, ListRejected(Locals(requests, r), i))
  /\ UNCHANGED <<cycleVars, call, defaultNamespace>>

ServerFetchSettle(r, i) ==
  /\ requests[r].cycle.fetches[i].state = "inflight"
  /\ \E response \in ServerResponses :
       requests' = Resume(requests, r, FetchSettled(Locals(requests, r), i, response))
  /\ UNCHANGED <<cycleVars, call, defaultNamespace>>

NextServer ==
  \/ Request
  \/ \E r \in DOMAIN requests : \E i \in DOMAIN requests[r].cycle.listings :
       ServerListResolve(r, i)
  \/ \E r \in DOMAIN requests : \E i \in DOMAIN requests[r].cycle.listings :
       ServerListReject(r, i)
  \/ \E r \in DOMAIN requests : \E i \in DOMAIN requests[r].cycle.fetches :
       ServerFetchSettle(r, i)

SpecServer == InitServer /\ [][NextServer]_vars

\* =================================================================== claims
InFlight == {i \in DOMAIN fetches : fetches[i].state = "inflight"}
Failed == \E i \in DOMAIN fetches : fetches[i].state = "rejected"
Issued(fs) == [i \in DOMAIN fs |-> fs[i].issued]
Terminal(pod) == pod.status.phase \in {"Failed", "Succeeded"}
\* The pods the listings returned, terminal or not.
ListedPods == UNION {SeqSet(listings[n].pods) : n \in DOMAIN listings}
\* The record m bears the pod.
Bears(m, pod) ==
  /\ m.labels.pod = pod.metadata.name
  /\ m.labels.namespace = pod.metadata.namespace
\* The records of the fetches settled, in the order in which they settled.
RECURSIVE SettledRecords(_)
SettledRecords(k) ==
  IF k = 0 THEN <<>>
  ELSE SettledRecords(k - 1)
         \o fetchPodMemoryAndCpuUsage(listed[settled[k]],
                                      fetches[settled[k]].response).metrics

\* C1: in every reachable state of a cycle the number of usage fetches
\* started and not yet settled is at most the concurrency bound.
C1_ConcurrencyBound == Cardinality(InFlight) <= concurrency

\* The bound bites: as many fetches in flight as allowed, after one has
\* settled, with pods still pending.
C1_Witness ==
  /\ pc = "pool"
  /\ Cardinality(InFlight) = concurrency
  /\ settled # <<>>
  /\ allPods # <<>>

\* C2: when the usage fetch of any pod has failed, collectMetrics has yielded
\* a failure and no metric list, whichever pod failed, however many fetches
\* had succeeded and in whatever order the fetches settle.
C2_FailFast == Failed => result.status = "rejected" /\ result.metrics = <<>>

\* A fetch fails after another has succeeded and left its records.
C2_Witness ==
  /\ Len(settled) >= 2
  /\ fetches[settled[1]].state = "fulfilled"
  /\ fetches[settled[2]].state = "rejected"
  /\ metrics # <<>>
  /\ result.status = "rejected"

\* C3: once a usage fetch has failed, no pending pod is dispatched any more
\* (the array of pending pods and the count of fetches issued stay as they
\* are) and the failure yielded to the caller stays as it is, whatever the
\* fetches still in flight produce when they settle.
C3_NoDispatchAfterFailure ==
  [][Failed => /\ allPods' = allPods
               /\ Issued(fetches') = Issued(fetches)
               /\ result.status = "rejected"
               /\ result' = result]_vars

\* A fetch in flight at the failure settles after it and leaves records,
\* while a pod is still pending and the caller holds the failure.
C3_Witness ==
  /\ \E k, l \in DOMAIN settled :
       /\ k < l
       /\ fetches[settled[k]].state = "rejected"
       /\ fetches[settled[l]].state = "fulfilled"
  /\ metrics # <<>>
  /\ allPods # <<>>
  /\ result.status = "rejected"

\* C4: for a listed pod whose phase is Failed or Succeeded no usage fetch is
\* ever issued, and no record bearing it is in `metrics` nor in the result.
C4_TerminalPodsSkipped ==
  \A pod \in ListedPods :
    Terminal(pod) =>
      /\ \A i \in DOMAIN listed : listed[i] = pod => fetches[i].issued = 0
      /\ \A k \in DOMAIN metrics : ~Bears(metrics[k], pod)
      /\ \A k \in DOMAIN result.metrics : ~Bears(result.metrics[k], pod)

\* A cycle returns records while a Failed and a Succeeded pod, with declared
\* resources, were listed.
C4_Witness ==
  /\ result.status = "returned"
  /\ result.metrics # <<>>
  /\ \E p1, p2 \in ListedPods :
       /\ p1.status.phase = "Failed"
       /\ p2.status.phase = "Succeeded"
       /\ p1.spec.containers # <<>>
       /\ p1.metadata.namespace # p2.metadata.namespace

\* C5: when collectMetrics returns, no fetch is in flight, every non-terminal
\* pod of every listing has been fetched exactly once and nothing else has
\* been fetched, and the list returned is exactly the records derived from
\* the responses of those pods, each once, in the order the fetches settled.
C5_AllCollected ==
  result.status = "returned" =>
    /\ InFlight = {}
    /\ \A n \in DOMAIN listings : listings[n].state = "ok"
    /\ \A pod \in ListedPods :
         ~Terminal(pod) =>
           Cardinality({i \in DOMAIN listed :
                          /\ listed[i] = pod
                          /\ fetches[i].issued = 1
                          /\ fetches[i].state = "fulfilled"}) = 1
    /\ \A i \in DOMAIN fetches :
         /\ fetches[i].issued <= 1
         /\ fetches[i].issued = 1 => listed[i] \in ListedPods /\ ~Terminal(listed[i])
    /\ Len(settled) = Cardinality({pod \in ListedPods : ~Terminal(pod)})
    /\ result.metrics = SettledRecords(Len(settled))

\* A cycle over two namespaces returns the records of three pods whose
\* fetches settled in another order than they were dispatched.
C5_Witness ==
  /\ result.status = "returned"
  /\ Len(namespace) = 2
  /\ Len(settled) >= 3
  /\ settled[1] < settled[2]
  /\ Len(result.metrics) >= 6

\* ------------------------------------------------ claims about one fetch
Settled == call.state = "settled"
Reported == call.response.body.containers
\* The status is one the fetch accepts, and the body agrees with the shape.
Accepted(response) ==
  /\ response.status \in 200..299
  /\ response.status # 204
WellShaped(body) ==
  /\ body.typeof = "object"
  /\ ~body.isArray
  /\ ~body.isNull
  /\ body.kind = "PodMetrics"
UsageNames == {"osmetrics_pod_memory_usage_bytes", "osmetrics_pod_cpu_usage_millicores"}
\* The four rate records: the section and resource declared, and the name.
RateRecords ==
  {<<"limits", "memory", "osmetrics_pod_memory_usage_limits_rate">>,
   <<"requests", "memory", "osmetrics_pod_memory_usage_requests_rate">>,
   <<"limits", "cpu", "osmetrics_pod_cpu_usage_limits_rate">>,
   <<"requests", "cpu", "osmetrics_pod_cpu_usage_requests_rate">>}
\* The spec containers of the pod that bear the name.
SpecContainersNamed(pod, name) ==
  {j \in DOMAIN pod.spec.containers : pod.spec.containers[j].name = name}
\* The quantity the spec container of that name declares, as a set (empty
\* when there is no such container or it declares none).
DeclaredBy(pod, name, section, resource) ==
  {pod.spec.containers[j].resources[section][resource] :
     j \in {j \in SpecContainersNamed(pod, name) :
              /\ section \in DOMAIN pod.spec.containers[j].resources
              /\ resource \in DOMAIN pod.spec.containers[j].resources[section]}}
\* The positions of the records of `ms` with that name and container label.
RecordsOf(ms, name, container) ==
  {k \in DOMAIN ms : ms[k].name = name /\ ms[k].labels.container = container}
\* The quantity strings of the inputs that are no quantity.
MalformedQuantities == {Bogus, Quantity(64, "Xi")}
\* A quantity in the canonical unit of its resource.
Canonical(resource, raw) ==
  IF resource = "memory" THEN parseMemory(raw).value ELSE parseCpu(raw).value

\* C6: of a successful fetch, every reported container has exactly one
\* memory-usage and one CPU-usage record, and each of the four rate records
\* exactly when the spec container of the same name declares the matching
\* quantity; there are no other records; and when no spec container bears
\* the name of any reported container the fetch succeeds with the two usage
\* records per container.
C6_RecordsPerContainer ==
  Settled =>
    /\ call.outcome.ok =>
         /\ \A i \in DOMAIN Reported :
              /\ \A n \in UsageNames :
                   Cardinality(RecordsOf(call.outcome.metrics, n, Reported[i].name)) = 1
              /\ \A r \in RateRecords :
                   Cardinality(RecordsOf(call.outcome.metrics, r[3], Reported[i].name))
                     = IF DeclaredBy(call.pod, Reported[i].name, r[1], r[2]) # {}
                         THEN 1 ELSE 0
         /\ \A k \in DOMAIN call.outcome.metrics :
              /\ call.outcome.metrics[k].name
                   \in UsageNames \cup {r[3] : r \in RateRecords}
              /\ \E i \in DOMAIN Reported :
                   call.outcome.metrics[k].labels.container = Reported[i].name
    /\ ( /\ Accepted(call.response)
         /\ WellShaped(call.response.body)
         /\ \A i \in DOMAIN Reported :
              /\ Reported[i].usage.memory \notin MalformedQuantities
              /\ Reported[i].usage.cpu \notin MalformedQuantities
              /\ SpecContainersNamed(call.pod, Reported[i].name) = {} )
       => /\ call.outcome.ok
          /\ Len(call.outcome.metrics) = 2 * Len(Reported)

\* A fetch succeeds with two containers reported: one whose spec container
\* declares some of the four quantities and not all, one without a spec
\* container.
C6_Witness ==
  /\ Settled
  /\ call.outcome.ok
  /\ Len(Reported) = 2
  /\ Len(call.pod.spec.containers) = 1
  /\ Len(call.outcome.metrics) \in {5, 6, 7}

\* C7: of a successful fetch, the value of every rate record is the usage
\* divided by the declared quantity, and a warning is logged for a rate
\* record exactly when the usage exceeds the declared quantity, the record
\* being emitted all the same; a fetch whose response is accepted and whose
\* quantities are all well-formed succeeds whatever its rates; usage 128Mi
\* against a limit of 256Mi gives 1/2 and no warning, usage 512Mi gives 2 and
\* a warning.
C7_RateAndWarning ==
  Settled =>
    /\ call.outcome.ok =>
         \A i \in DOMAIN Reported : \A r \in RateRecords :
           \A raw \in DeclaredBy(call.pod, Reported[i].name, r[1], r[2]) :
             LET usage == Canonical(r[2], Reported[i].usage[r[2]])
                 declared == Canonical(r[2], raw)
                 warned == {w \in DOMAIN call.outcome.warnings :
                              /\ call.outcome.warnings[w].name = r[3]
                              /\ call.outcome.warnings[w].container = Reported[i].name}
             IN \A k \in RecordsOf(call.outcome.metrics, r[3], Reported[i].name) :
                  LET value == call.outcome.metrics[k].value IN
                  /\ value.num * declared = value.den * usage
                  /\ (declared = 0) = (value.den = 0)
                  /\ Cardinality(warned) = IF usage > declared THEN 1 ELSE 0
                  /\ \A w \in warned : call.outcome.warnings[w].rate = value
                  /\ (Reported[i].usage.memory = Mi(128) /\ r[2] = "memory" /\ raw = Mi(256))
                       => value = [num |-> 1, den |-> 2] /\ warned = {}
                  /\ (Reported[i].usage.memory = Mi(512) /\ r[2] = "memory" /\ raw = Mi(256))
                       => value = [num |-> 2, den |-> 1] /\ warned # {}
    /\ call.outcome.ok => Len(call.outcome.warnings) <= Len(call.outcome.metrics)
    /\ ( /\ Accepted(call.response)
         /\ WellShaped(call.response.body)
         /\ \A i \in DOMAIN Reported :
              /\ Reported[i].usage.memory \notin MalformedQuantities
              /\ Reported[i].usage.cpu \notin MalformedQuantities
              /\ \A r \in RateRecords :
                   DeclaredBy(call.pod, Reported[i].name, r[1], r[2])
                     \cap MalformedQuantities = {} )
       => call.outcome.ok

\* A fetch succeeds with a warning for one rate record (usage 512Mi against
\* a limit of 256Mi) and none for another, of value exactly 1 (usage 128Mi
\* against a request of 128Mi), both records emitted.
C7_Witness ==
  /\ Settled
  /\ call.outcome.ok
  /\ \E k, l \in DOMAIN call.outcome.metrics :
       /\ call.outcome.metrics[k].name = "osmetrics_pod_memory_usage_limits_rate"
       /\ call.outcome.metrics[k].value = [num |-> 2, den |-> 1]
       /\ call.outcome.metrics[l].name = "osmetrics_pod_memory_usage_requests_rate"
       /\ call.outcome.metrics[l].value = [num |-> 1, den |-> 1]
       /\ \E w \in DOMAIN call.outcome.warnings :
            /\ call.outcome.warnings[w].name = call.outcome.metrics[k].name
            /\ call.outcome.warnings[w].container = call.outcome.metrics[k].labels.container
       /\ \A w \in DOMAIN call.outcome.warnings :
            ~ /\ call.outcome.warnings[w].name = call.outcome.metrics[l].name
              /\ call.outcome.warnings[w].container = call.outcome.metrics[l].labels.container

\* C8: a response whose status is outside [200, 299] or is 204 fails the
\* fetch with the error that names the status and the URL of the pod,
\* whatever the body holds, and no record is produced.
C8_StatusRejected ==
  (Settled /\ (call.response.status < 200 \/ call.response.status > 299
                 \/ call.response.status = 204)) =>
    /\ ~call.outcome.ok
    /\ call.outcome.error.message = "OS API returned status code"
    /\ call.outcome.error.status = call.response.status
    /\ call.outcome.error.url = [namespace |-> call.pod.metadata.namespace,
                                 pod |-> call.pod.metadata.name]
    /\ call.outcome.metrics = <<>>
    /\ call.outcome.warnings = <<>>

\* A 204 response with a body that would otherwise yield records.
C8_Witness ==
  /\ Settled
  /\ call.response.status = 204
  /\ WellShaped(call.response.body)
  /\ call.response.body.containers # <<>>
  /\ ~call.outcome.ok

\* C9: a response with an accepted status whose body is no object, an array,
\* null, or an object of another kind than PodMetrics fails the fetch with
\* a shape error and without any record; a null body is reported as not
\* being an object, an object of another kind by its kind.
C9_ShapeRejected ==
  (Settled /\ Accepted(call.response) /\ ~WellShaped(call.response.body)) =>
    /\ ~call.outcome.ok
    /\ call.outcome.metrics = <<>>
    /\ call.outcome.warnings = <<>>
    /\ call.outcome.error.message \in {"Expected an object", "Expected a PodMetrics"}
    /\ call.response.body.isNull =>
         /\ call.outcome.error.message = "Expected an object"
         /\ call.outcome.error.detail = "null"
    /\ (call.response.body.typeof # "object" \/ call.response.body.isArray) =>
         call.outcome.error.message = "Expected an object"
    /\ ( /\ call.response.body.typeof = "object"
         /\ ~call.response.body.isArray
         /\ ~call.response.body.isNull ) =>
         /\ call.outcome.error.message = "Expected a PodMetrics"
         /\ call.outcome.error.detail = call.response.body.kind

\* A 299 response with a null body.
C9_Witness ==
  /\ Settled
  /\ call.response.status = 299
  /\ call.response.body.isNull
  /\ ~call.outcome.ok

\* ------------------------------------ malformed quantities, in the cycle
HasSettled(i) == fetches[i].state \in {"fulfilled", "rejected"}
MalformedUsage(response) ==
  \E c \in DOMAIN response.body.containers :
    \/ response.body.containers[c].usage.memory \in MalformedQuantities
    \/ response.body.containers[c].usage.cpu \in MalformedQuantities
\* A spec container of the pod declares a malformed quantity.
MalformedDeclared(pod) ==
  \E j \in DOMAIN pod.spec.containers : \E r \in RateRecords :
    /\ r[1] \in DOMAIN pod.spec.containers[j].resources
    /\ r[2] \in DOMAIN pod.spec.containers[j].resources[r[1]]
    /\ pod.spec.containers[j].resources[r[1]][r[2]] \in MalformedQuantities
\* The spec container that bears the name of a reported container declares
\* a malformed quantity.
MalformedDeclaredOfReported(pod, response) ==
  \E c \in DOMAIN response.body.containers : \E r \in RateRecords :
    DeclaredBy(pod, response.body.containers[c].name, r[1], r[2])
      \cap MalformedQuantities # {}
\* The fetch of pod i has failed, the cycle with it, and no record bears
\* the pod.
HardError(i) ==
  /\ fetches[i].state = "rejected"
  /\ result.status = "rejected"
  /\ \A k \in DOMAIN metrics : ~Bears(metrics[k], listed[i])

\* C10, as claimed: a pod whose accepted, well-shaped response reports a
\* malformed usage value, or whose spec declares a malformed limit or
\* request, has its fetch fail and the cycle with it, and no record of it
\* exists.
C10_AnyMalformedIsHardError ==
  \A i \in DOMAIN fetches :
    ( /\ HasSettled(i)
      /\ Accepted(fetches[i].response)
      /\ WellShaped(fetches[i].response.body)
      /\ MalformedUsage(fetches[i].response) \/ MalformedDeclared(listed[i]) )
    => HardError(i)

\* C10, amended: a malformed quantity string that the fetch parses (a usage
\* value of a reported container, or a limit or request declared by the spec
\* container that bears the name of a reported container) has the fetch of
\* the pod fail and the cycle with it, and no record of the pod exists, none
\* with a defaulted value either.
C10_ParsedMalformedIsHardError ==
  \A i \in DOMAIN fetches :
    ( /\ HasSettled(i)
      /\ Accepted(fetches[i].response)
      /\ WellShaped(fetches[i].response.body)
      /\ \/ MalformedUsage(fetches[i].response)
         \/ MalformedDeclaredOfReported(listed[i], fetches[i].response) )
    => HardError(i)

\* A fetch fails on a malformed declared limit, its usage values being
\* well-formed, after another pod has left its records.
C10_Witness ==
  \E i \in DOMAIN fetches :
    /\ fetches[i].state = "rejected"
    /\ Accepted(fetches[i].response)
    /\ ~MalformedUsage(fetches[i].response)
    /\ MalformedDeclaredOfReported(listed[i], fetches[i].response)
    /\ metrics # <<>>
    /\ result.status = "rejected"

\* ---------------------------------------------------------------------- C11
\* The listings that have failed, and the position in `settled` of the first
\* fetch that failed.
ListingsFailed == {n \in DOMAIN listings : listings[n].state = "error"}
FirstFailure(k) ==
  /\ k \in 1..Len(settled)
  /\ fetches[settled[k]].state = "rejected"
  /\ \A j \in 1..(k - 1) : fetches[settled[j]].state = "fulfilled"

\* C11: a failure of a listing or of a fetch makes collectMetrics throw, and
\* what it throws is the very error of a failed listing or, with no listing
\* failed, of the first fetch that failed; there is one listing per namespace
\* given and at most one fetch per pod; once a listing has failed no fetch
\* has been issued.
C11_SameErrorNoRetry ==
  /\ pc # "idle" => Len(listings) = Len(namespace)
  /\ \A i \in DOMAIN fetches : fetches[i].issued <= 1
  /\ ListingsFailed # {} => \A i \in DOMAIN fetches : fetches[i].issued = 0
  /\ (ListingsFailed # {} \/ Failed) => result.status = "rejected"
  /\ result.status = "rejected" =>
       \/ \E n \in ListingsFailed : result.error = ListError(namespace[n])
       \/ /\ ListingsFailed = {}
          /\ \E k \in 1..Len(settled) :
               /\ FirstFailure(k)
               /\ result.error =
                    fetchPodMemoryAndCpuUsage(listed[settled[k]],
                                              fetches[settled[k]].response).error
               /\ result.error # NoError

\* A fetch timed out after another had succeeded, and the cycle failed with
\* the error of the timeout.
C11_Witness ==
  /\ result.status = "rejected"
  /\ \E k \in 2..Len(settled) :
       /\ FirstFailure(k)
       /\ fetches[settled[k]].response = FetchFailure("request-timeout")
       /\ result.error.detail = "request-timeout"

\* ---------------------------------------------------------------------- C12
\* The records of the fetches of the cycle that have settled, in the order
\* in which they settled, from the responses this cycle has received.
RECURSIVE OwnRecords(_, _)
OwnRecords(cy, k) ==
  IF k = 0 THEN <<>>
  ELSE OwnRecords(cy, k - 1)
         \o fetchPodMemoryAndCpuUsage(cy.listed[cy.settled[k]],
                                      cy.fetches[cy.settled[k]].response).metrics
\* The pods the listings of the cycle have returned.
OwnPods(cy) == UNION {SeqSet(cy.listings[n].pods) : n \in DOMAIN cy.listings}
\* A listing or a fetch of the cycle itself has failed, or the cycle was
\* given no namespaces at all.
OwnFailure(cy) ==
  \/ \E n \in DOMAIN cy.listings : cy.listings[n].state = "error"
  \/ \E i \in DOMAIN cy.fetches : cy.fetches[i].state = "rejected"
  \/ cy.result.error.message = "TypeError"
\* The cycle has nothing left to do and none of its calls has failed.
OwnSuccess(cy) ==
  /\ ~OwnFailure(cy)
  /\ cy.pc # "listing"
  /\ \A n \in DOMAIN cy.listings : cy.listings[n].state = "ok"
  /\ \A i \in DOMAIN cy.fetches :
       cy.fetches[i].state = "fulfilled" \/ Terminal(cy.listed[i])

\* C12: with several requests in progress, what each cycle has collected and
\* what it returns are the records of its own fetches, each of a pod of its
\* own listings; a cycle fails only on a failure of its own, and a cycle all
\* of whose calls have succeeded returns, whatever became of the others.
C12_CyclesIndependent ==
  \A r \in DOMAIN requests :
    LET cy == requests[r].cycle IN
    /\ cy.metrics = OwnRecords(cy, Len(cy.settled))
    /\ \A k \in DOMAIN cy.metrics : \E pod \in OwnPods(cy) : Bears(cy.metrics[k], pod)
    /\ cy.result.status = "returned" => cy.result.metrics = OwnRecords(cy, Len(cy.settled))
    /\ cy.result.status = "rejected" => OwnFailure(cy)
    /\ OwnSuccess(cy) => cy.result.status = "returned"

\* The second request was received while the first was in progress and has
\* failed on a fetch; the first has collected records, goes on, and a fetch
\* of the failed cycle is still in flight.
C12_Witness ==
  /\ Len(requests) = 2
  /\ requests[1].cycle.pc = "pool"
  /\ requests[1].cycle.metrics # <<>>
  /\ requests[2].cycle.result.status = "rejected"
  /\ requests[2].cycle.metrics # <<>>
  /\ \E i \in DOMAIN requests[2].cycle.fetches : requests[2].cycle.fetches[i].state = "rejected"

\* ---------------------------------------------------------------------- C13
\* The namespaces a request asks for: those of the query, a single value as
\* a list of one, or the default of the server.
Asked(query) ==
  CASE query.kind = "array" -> Defined(query.array)
    [] query.kind = "string" -> Defined(<<query.string>>)
    [] OTHER -> defaultNamespace
\* The sample lines of a document, and the records as sample lines.
SampleLines(document) ==
  {k \in DOMAIN document : document[k].line = "sample"}
Tuple(m) == <<m.name, m.labels, m.value, m.timestamp>>

\* C13: the cycle of a request lists exactly the namespaces asked for, once
\* each; the request is not answered before its cycle ends; it is answered
\* with status 200 and the document of the records returned when the cycle
\* returns, and with a 5xx status and no document when the cycle fails, as
\* it does when no namespace is asked for and none is configured.
C13_MetricsRequest ==
  \A r \in DOMAIN requests :
    LET cy == requests[r].cycle
        asked == Asked(requests[r].query)
        reply == requests[r].reply
    IN
    /\ asked.defined =>
         /\ cy.namespace = asked.value
         /\ DOMAIN cy.listings = DOMAIN asked.value
    /\ ~asked.defined => cy.result.status = "rejected" /\ cy.listings = <<>>
    /\ cy.result.status = "pending" => reply.statusCode = 0
    /\ cy.result.status = "returned" =>
         /\ reply.statusCode = 200
         /\ Cardinality(SampleLines(reply.document)) = Len(cy.result.metrics)
         /\ {Tuple(reply.document[k]) : k \in SampleLines(reply.document)}
              = {Tuple(cy.result.metrics[k]) : k \in DOMAIN cy.result.metrics}
    /\ cy.result.status = "rejected" =>
         /\ reply.statusCode \in 500..599
         /\ reply.document = <<>>

\* A request with a single namespace has been answered with a document of
\* records, and a request with no namespace, served over the default, with
\* an error after a fetch failed.
C13_Witness ==
  /\ Len(requests) = 2
  /\ requests[1].query = QueryString("b")
  /\ requests[1].cycle.namespace = <<"b">>
  /\ requests[1].reply.statusCode = 200
  /\ requests[1].reply.document # <<>>
  /\ requests[2].query = QueryAbsent
  /\ requests[2].cycle.namespace = <<"a">>
  /\ requests[2].reply.statusCode = 500
  /\ \E i \in DOMAIN requests[2].cycle.fetches : requests[2].cycle.fetches[i].state = "rejected"

\* ---------------------------------------------------------------------- C14
Min(a, b) == IF a <= b THEN a ELSE b
\* The pods the filter has kept whose fetch has not completed.
NotCompleted ==
  Cardinality({i \in DOMAIN listed : ~Terminal(listed[i])}) - Len(settled)

\* C14: while the pool is running (no fetch has failed and its promise has
\* not settled) the fetches in flight number the smaller of the concurrency
\* and the pods not yet completed: the step in which a fetch completes
\* has dispatched the next pending pod, if one remained.
C14_PoolKeptFull ==
  (pc = "pool" /\ ~Failed) =>
    Cardinality(InFlight) = Min(concurrency, NotCompleted)

\* With a concurrency of two and three pods, the first fetch has completed
\* and the third pod has been dispatched.
C14_Witness ==
  /\ pc = "pool"
  /\ concurrency = 2
  /\ Len(settled) = 1
  /\ Len(dispatched) = 3
  /\ Cardinality(InFlight) = 2

\* ---------------------------------------------------------------------- C15
Running == pc \in {"listing", "pool"}
Ended == result.status \in {"returned", "rejected"}

\* C15: with every listing and every started fetch settling, a cycle that
\* has been started ends, returning its records or throwing; and while the
\* pool runs a fetch is in flight, so that the cycle never waits with pods
\* pending and nothing to wake it.
C15_CycleEnds ==
  /\ [](pc = "pool" => InFlight # {})
  /\ [](allPods # <<>> /\ InFlight = {} => Ended)
  /\ (Running ~> Ended)

\* A cycle over two namespaces has returned after all its three fetches
\* have been dispatched one at a time and have settled.
C15_Witness ==
  /\ result.status = "returned"
  /\ concurrency = 1
  /\ Len(settled) = 3
  /\ InFlight = {}

\* ---------------------------------------------------------------------- C16
\* C16: every record a fetch produces is a gauge; its labels are pod,
\* container and namespace and no other, pod and namespace those of the pod
\* descriptor and container the name of a container of the response; its
\* timestamp is that of the response, in seconds; and two records of the
\* same metric name bear the same help text.
C16_RecordShape ==
  (Settled /\ call.outcome.ok) =>
    LET ms == call.outcome.metrics IN
    /\ \A k \in DOMAIN ms :
         /\ ms[k].type = "gauge"
         /\ DOMAIN ms[k].labels = {"pod", "container", "namespace"}
         /\ ms[k].labels.pod = call.pod.metadata.name
         /\ ms[k].labels.namespace = call.pod.metadata.namespace
         /\ \E c \in DOMAIN Reported : ms[k].labels.container = Reported[c].name
         /\ ms[k].timestamp.den # 0
         /\ ms[k].timestamp.num * 1000 = call.response.body.timestamp * ms[k].timestamp.den
    /\ \A k, l \in DOMAIN ms : ms[k].name = ms[l].name => ms[k].help = ms[l].help

\* A fetch has produced the usage records of two containers and rate records
\* of both, stamped with a fractional number of seconds.
C16_Witness ==
  /\ Settled
  /\ call.outcome.ok
  /\ Len(Reported) = 2
  /\ Len(call.outcome.metrics) > 6
  /\ call.outcome.metrics[1].timestamp = [num |-> 3, den |-> 2]
  /\ \E k, l \in DOMAIN call.outcome.metrics :
       /\ k # l
       /\ call.outcome.metrics[k].name = call.outcome.metrics[l].name

\* ---------------------------------------------------------------------- C17
\* The pods the filter keeps, as indices into the concatenated listing.
Kept == {i \in DOMAIN listed : ~Terminal(listed[i])}
\* The number of pods listed for the namespaces before the n-th.
RECURSIVE Offset(_)
Offset(n) == IF n = 1 THEN 0 ELSE Offset(n - 1) + Len(listings[n - 1].pods)
\* The pod a record bears, the position at which the fetch of a pod completed,
\* and the position of a container in the response of a pod.
PodOf(m) == CHOOSE i \in DOMAIN listed : Bears(m, listed[i])
CompletedAt(i) == CHOOSE k \in DOMAIN settled : settled[k] = i
ContainerAt(i, name) ==
  CHOOSE c \in DOMAIN fetches[i].response.body.containers :
    fetches[i].response.body.containers[c].name = name

\* C17: the listing is concatenated in the order of the namespaces given; the
\* k-th pod dispatched is the k-th from the end of the pods kept; and the
\* records returned are ordered by the completion of the fetch of their pod,
\* those of one pod by the position of their container in its response.
C17_Order ==
  /\ pc \in {"pool", "returned"} =>
       \A n \in DOMAIN listings : \A j \in DOMAIN listings[n].pods :
         listed[Offset(n) + j] = listings[n].pods[j]
  /\ \A k \in DOMAIN dispatched :
       /\ dispatched[k] \in Kept
       /\ Cardinality({j \in Kept : j > dispatched[k]}) = k - 1
  /\ result.status = "returned" =>
       /\ Len(result.metrics) = Len(SettledRecords(Len(settled)))
       /\ \A k, l \in DOMAIN result.metrics :
            k < l =>
              LET i == PodOf(result.metrics[k])
                  j == PodOf(result.metrics[l])
              IN /\ CompletedAt(i) <= CompletedAt(j)
                 /\ i = j => ContainerAt(i, result.metrics[k].labels.container)
                               <= ContainerAt(i, result.metrics[l].labels.container)

\* Three pods dispatched last first, two at a time, have completed in an
\* order that is neither that of the listing nor that of the dispatch, one
\* of them with a response of two containers, and the cycle has returned.
C17_Witness ==
  /\ result.status = "returned"
  /\ dispatched = <<3, 2, 1>>
  /\ settled = <<2, 3, 1>>
  /\ Len(fetches[2].response.body.containers) = 2
  /\ result.metrics[1].labels.pod = listed[2].metadata.name
  /\ result.metrics[1].labels.container = "c3"

\* ---------------------------------------------------------------------- C18
\* Every listing has resolved and no pod listed is left by the filter.
NothingToFetch ==
  /\ pc # "idle"
  /\ \A n \in DOMAIN listings : listings[n].state = "ok"
  /\ \A pod \in ListedPods : Terminal(pod)

\* C18: with no namespace given, with every listing empty, or with every pod
\* listed failed or succeeded, collectMetrics issues no fetch and returns an
\* empty list.
C18_NothingToFetch ==
  NothingToFetch =>
    /\ pc = "returned"
    /\ result = Returned(<<>>)
    /\ dispatched = <<>>
    /\ \A i \in DOMAIN fetches : fetches[i].issued = 0 /\ fetches[i].state = "none"

\* Of two namespaces one holds no pod and the other only pods that have
\* failed or succeeded, and the cycle has returned.
C18_Witness ==
  /\ Len(namespace) = 2
  /\ \E n \in DOMAIN listings : listings[n].state = "ok" /\ listings[n].pods = <<>>
  /\ \E n \in DOMAIN listings : Len(listings[n].pods) = 2
  /\ \E pod \in ListedPods : pod.status.phase = "Failed"
  /\ \E pod \in ListedPods : pod.status.phase = "Succeeded"
  /\ NothingToFetch
  /\ result.status = "returned"

====
